---- MODULE Spec2Model ----
(***************************************************************************)
(* A model of data_process/read_hdf5.py: the command-line dispatch, and    *)
(* the three operations explore_hdf5, extract_data and compare_episodes    *)
(* over a small file system of hierarchical containers.                    *)
(*                                                                         *)
(* Character strings are sequences of code points ("a/x" is <<97,47,120>>) *)
(* so that joining, sorting and taking a base name are computed.  An       *)
(* optional value is <<>> (None) or <<v>>.  A dict is a sequence of        *)
(* <<key, value>> pairs in insertion order.                                *)
(***************************************************************************)
EXTENDS Naturals, Sequences, FiniteSets, TLC

VARIABLES
    args,       \* the parsed command line (argparse namespace)
    fs,         \* the file system: container path -> container
    pc,         \* position of the running program
    frame,      \* the parameters of the function being executed
    open,       \* the container handles currently open
    log,        \* everything emitted and done so far, in order
    todo,       \* visititems: the names still to be handed to the callback
    stack,      \* analyze_group: the recursion stack (path, keys left)
    data_dict,  \* extract_data: the mapping being collected
    file_data,  \* compare_episodes: the mapping of the file being loaded
    all_data,   \* compare_episodes: file path -> file_data
    i,          \* compare_episodes: index of the file being loaded
    keys,       \* compare_episodes: the sorted keys still to be reported
    result,     \* what extract_data returned
    disk        \* the output files written by np.save

vars == <<args, fs, pc, frame, open, log, todo, stack, data_dict, file_data,
          all_data, i, keys, result, disk>>

(***************************************************************************)
(* Bounds of the model.                                                    *)
(***************************************************************************)
MaxCompare == 2     \* longest --compare list
MaxRank == 4        \* largest number of dimensions of a drawn shape

(***************************************************************************)
(* Literals of the program.                                                *)
(***************************************************************************)
Slash == 47         \* "/" in f"{path}/{key}"
FullLimit == 20     \* data.size <= 20
Head1D == 10        \* data[:10]
Rows2D == 3         \* data[:3, :]
Block3D == 2        \* data[:2, :2, :]

(***************************************************************************)
(* Python values.                                                          *)
(***************************************************************************)
None == <<>>
Some(v) == <<v>>
\* bool(x) of an optional str or list: None and the empty value are false
Truthy(o) == o # None /\ o[1] # <<>>

RECURSIVE StrLess(_, _)
\* a < b on str: code point by code point, a proper prefix first
StrLess(a, b) ==
    IF b = <<>> THEN FALSE
    ELSE IF a = <<>> THEN TRUE
    ELSE IF a[1] # b[1] THEN a[1] < b[1]
    ELSE StrLess(Tail(a), Tail(b))

RECURSIVE sorted(_)
\* sorted(set of str): ascending list
sorted(S) ==
    IF S = {} THEN <<>>
    ELSE LET m == CHOOSE x \in S : \A y \in S \ {x} : StrLess(x, y)
         IN <<m>> \o sorted(S \ {m})

\* dict operations on insertion-ordered sequences of <<key, value>>
DictKeySet(d) == {d[n][1] : n \in 1..Len(d)}
DictHas(d, k) == k \in DictKeySet(d)
DictGet(d, k) == d[CHOOSE n \in 1..Len(d) : d[n][1] = k][2]
\* d[k] = v: a new key goes last, an old key keeps its place
DictSet(d, k, v) ==
    IF DictHas(d, k)
    THEN [n \in 1..Len(d) |-> IF d[n][1] = k THEN <<k, v>> ELSE d[n]]
    ELSE Append(d, <<k, v>>)

RECURSIVE LastSlash(_)
\* index of the last "/" of s, 0 when there is none
LastSlash(s) ==
    IF s = <<>> THEN 0
    ELSE IF s[Len(s)] = Slash THEN Len(s)
    ELSE LastSlash(SubSeq(s, 1, Len(s) - 1))

\* Path(fp).name
PathName(fp) == SubSeq(fp, LastSlash(fp) + 1, Len(fp))

RECURSIVE Product(_)
Product(shape) == IF shape = <<>> THEN 1 ELSE shape[1] * Product(Tail(shape))

Min(a, b) == IF a < b THEN a ELSE b

(***************************************************************************)
(* Containers (the h5py objects the program works on).  A container maps   *)
(* the name of each node to the node; the root group has the empty name.   *)
(***************************************************************************)
Group(ks) == [kind |-> "Group", keys |-> ks]
Dataset(shape, dtype, attrs, readable, val) ==
    [kind |-> "Dataset", shape |-> shape, dtype |-> dtype, attrs |-> attrs,
     readable |-> readable, val |-> val]

IsGroup(obj) == obj.kind = "Group"
IsDataset(obj) == obj.kind = "Dataset"

\* f"{path}/{key}" if path else key
JoinPath(path, key) == IF path # <<>> THEN path \o <<Slash>> \o key ELSE key

\* VisitFrom that does not descend into groups (the members of one group only)
VisitFromShallow(c, path, ks) == [n \in 1..Len(ks) |-> JoinPath(path, ks[n])]

RECURSIVE VisitFrom(_, _, _)
\* h5py visititems below one group: every member, a group before its members
VisitFrom(c, path, ks) ==
    IF ks = <<>> THEN <<>>
    ELSE LET name == JoinPath(path, ks[1])
         IN <<name>>
            \o (IF IsGroup(c[name]) THEN VisitFrom(c, name, c[name].keys) ELSE <<>>)
            \o VisitFrom(c, path, Tail(ks))

\* f.visititems(callback): the names handed to the callback, in order
VisitItems(c) == VisitFrom(c, <<>>, c[<<>>].keys)

\* name in f, f[name]: a leading "/" addresses the root of the file
NodeName(name) == IF name # <<>> /\ name[1] = Slash THEN Tail(name) ELSE name
Contains(c, name) == NodeName(name) \in DOMAIN c
GetItem(c, name) == c[NodeName(name)]

\* obj[()] of a readable dataset: the whole content
ReadAll(obj) == [shape |-> obj.shape, dtype |-> obj.dtype, val |-> obj.val]
\* isinstance(data, np.ndarray): a scalar dataset reads as a scalar
IsNdarray(data) == data.shape # <<>>
\* np.issubdtype(data.dtype, np.number)
IsNumber(dtype) == dtype \in {"float64", "int64"}
DatasetNames(c) == {n \in DOMAIN c : IsDataset(c[n])}

(***************************************************************************)
(* The file system the program is run on.  Names: "A" <<65>>, "d/A"        *)
(* <<100,47,65>>, "C" <<67>>; "M" <<77>> names no file.  Node names: "a"   *)
(* <<97>>, "a-" <<97,45>>, "x" <<120>>, "y" <<121>>, "z" <<122>>.          *)
(* The keys of a group are in the order the store hands them out (by name).*)
(***************************************************************************)
FileA == <<65>>
FileDA == <<100, 47, 65>>
FileC == <<67>>
FileM == <<77>>
Files == {FileA, FileDA, FileC, FileM}

ContainerA ==
    (<<>> :> Group(<<<<97>>, <<97, 45>>>>))
    @@ (<<97>> :> Group(<<<<120>>, <<121>>>>))
    @@ (<<97, 47, 120>> :> Dataset(<<3>>, "float64", <<>>, TRUE, 1))
    @@ (<<97, 47, 121>> :> Dataset(<<2, 2>>, "int64", <<"unit">>, TRUE, 2))
    @@ (<<97, 45>> :> Dataset(<<>>, "float64", <<>>, TRUE, 3))

ContainerDA ==
    (<<>> :> Group(<<<<97>>, <<122>>>>))
    @@ (<<97>> :> Group(<<<<120>>>>))
    @@ (<<97, 47, 120>> :> Dataset(<<4>>, "float64", <<>>, TRUE, 4))
    @@ (<<122>> :> Dataset(<<25>>, "S", <<>>, TRUE, 5))

\* the dataset "z" of C is corrupted: reading it fails
ContainerC ==
    (<<>> :> Group(<<<<120>>, <<122>>>>))
    @@ (<<120>> :> Dataset(<<0>>, "float64", <<>>, TRUE, 6))
    @@ (<<122>> :> Dataset(<<2>>, "float64", <<>>, FALSE, 7))

FileSystem == (FileA :> ContainerA) @@ (FileDA :> ContainerDA) @@ (FileC :> ContainerC)

(***************************************************************************)
(* What the program emits.  Every entry of the log is a record             *)
(* [ev, name, info]; ev names the line printed or the step done.           *)
(***************************************************************************)
Ev(e, name, info) == [ev |-> e, name |-> name, info |-> info]

\* print_structure(name, obj): one node of the structure pass
print_structure(name, obj) ==
    IF IsGroup(obj)
    THEN <<Ev("s_group", name, obj.keys)>>
    ELSE <<Ev("s_dataset", name,
              [shape |-> obj.shape, dtype |-> obj.dtype, size |-> Product(obj.shape)])>>
         \o (IF Len(obj.attrs) > 0 THEN <<Ev("s_attrs", name, obj.attrs)>> ELSE <<>>)

\* Preview with "<" for "<=" in the test of the element count
PreviewStrictLimit(name, data) ==
    IF Product(data.shape) < FullLimit
    THEN <<Ev("p_data", name, data.shape)>>
    ELSE IF Len(data.shape) = 1
    THEN <<Ev("p_first", name, <<Min(Head1D, data.shape[1])>>)>>
    ELSE IF Len(data.shape) = 2
    THEN <<Ev("p_first", name, <<Min(Rows2D, data.shape[1]), data.shape[2]>>)>>
    ELSE IF Len(data.shape) = 3
    THEN <<Ev("p_first", name,
              <<Min(Block3D, data.shape[1]), Min(Block3D, data.shape[2]), data.shape[3]>>)>>
    ELSE <<Ev("p_shape", name, data.shape)>>

\* Preview whose last slicing branch takes every array of 3 or more dimensions
PreviewSliceAbove3(name, data) ==
    IF Product(data.shape) <= FullLimit
    THEN <<Ev("p_data", name, data.shape)>>
    ELSE IF Len(data.shape) = 1
    THEN <<Ev("p_first", name, <<Min(Head1D, data.shape[1])>>)>>
    ELSE IF Len(data.shape) = 2
    THEN <<Ev("p_first", name, <<Min(Rows2D, data.shape[1]), data.shape[2]>>)>>
    ELSE <<Ev("p_first", name,
              <<Min(Block3D, data.shape[1]), Min(Block3D, data.shape[2])>>
              \o SubSeq(data.shape, 3, Len(data.shape)))>>

\* the preview of a non-empty array in verbose mode: the leading block shown
Preview(name, data) ==
    IF Product(data.shape) <= FullLimit
    THEN <<Ev("p_data", name, data.shape)>>
    ELSE IF Len(data.shape) = 1
    THEN <<Ev("p_first", name, <<Min(Head1D, data.shape[1])>>)>>
    ELSE IF Len(data.shape) = 2
    THEN <<Ev("p_first", name, <<Min(Rows2D, data.shape[1]), data.shape[2]>>)>>
    ELSE IF Len(data.shape) = 3
    THEN <<Ev("p_first", name,
              <<Min(Block3D, data.shape[1]), Min(Block3D, data.shape[2]), data.shape[3]>>)>>
    ELSE <<Ev("p_shape", name, data.shape)>>

\* what analyze_group prints about the content it has read
AnalyzeData(name, data, verbose) ==
    IF IsNdarray(data)
    THEN <<Ev("a_array", name, [shape |-> data.shape, dtype |-> data.dtype])>>
         \o (IF Product(data.shape) > 0
             THEN (IF IsNumber(data.dtype) THEN <<Ev("a_stats", name, data.val)>> ELSE <<>>)
                  \o (IF verbose THEN Preview(name, data) ELSE <<>>)
             ELSE <<>>)
    ELSE <<Ev("a_value", name, data.val)>>

\* WithExit as a close() at the end of the block, skipped by an exception
WithExitNoFinally(o, h, raised) == IF raised THEN o ELSE o \ {h}

\* the with statement: the handle is released however the block is left
WithExit(o, h, raised) == o \ {h}

\* the frame of a call: the function, who called it, and its parameters
Frame(fn, caller, file_path, dataset_path, verbose, file_paths) ==
    [fn |-> fn, caller |-> caller, file_path |-> file_path,
     dataset_path |-> dataset_path, verbose |-> verbose, file_paths |-> file_paths]
NoFrame == Frame("none", "none", <<>>, None, FALSE, <<>>)

NoResult == [t |-> "unset", v |-> <<>>]
ReturnNone == [t |-> "None", v |-> <<>>]
ReturnData(d) == [t |-> "data", v |-> d]
ReturnDict(d) == [t |-> "dict", v |-> d]

(***************************************************************************)
(* __main__: the command line and the choice of the mode.                  *)
(***************************************************************************)
\* the lists of 1..MaxCompare files --compare can be given (nargs='+')
CompareLists == UNION {[1..n -> Files] : n \in 1..MaxCompare}
\* --extract: "" , "a/x", "/a/x", "a" (a group), "z", "q" (nowhere)
ExtractPaths ==
    {<<>>, <<97, 47, 120>>, <<47, 97, 47, 120>>, <<97>>, <<122>>, <<113>>}
\* --save: "", "o", "o.npy"
SavePaths == {<<>>, <<111>>, <<111, 46, 110, 112, 121>>}

ArgSpace ==
    [file : Files,
     verbose : BOOLEAN,
     extract : {None} \cup {Some(p) : p \in ExtractPaths},
     compare : {None} \cup {Some(l) : l \in CompareLists},
     save : {None} \cup {Some(p) : p \in SavePaths}]

\* ModeOf with --extract tested before --compare
ModeOfExtractFirst(a) ==
    IF Truthy(a.extract) THEN "extract"
    ELSE IF Truthy(a.compare) THEN "compare"
    ELSE "explore"

\* if args.compare: ... elif args.extract: ... else: ...
ModeOf(a) ==
    IF Truthy(a.compare) THEN "compare"
    ELSE IF Truthy(a.extract) THEN "extract"
    ELSE "explore"

\* nothing is open, emitted, collected or written before the program runs
Fresh ==
    /\ open = {}
    /\ log = <<>>
    /\ todo = <<>>
    /\ stack = <<>>
    /\ data_dict = <<>>
    /\ file_data = <<>>
    /\ all_data = <<>>
    /\ i = 0
    /\ keys = <<>>
    /\ result = NoResult
    /\ disk = <<>>

Init ==
    /\ args \in ArgSpace
    /\ fs = FileSystem
    /\ pc = "main"
    /\ frame = NoFrame
    /\ Fresh

MainCompare ==
    /\ pc = "main"
    /\ ModeOf(args) = "compare"
    /\ frame' = Frame("compare_episodes", "__main__", <<>>, None, FALSE, args.compare[1])
    /\ log' = log \o <<Ev("call", <<>>, "compare_episodes"), Ev("c_banner", <<>>, <<>>)>>
    /\ all_data' = <<>>
    /\ i' = 1
    /\ pc' = "cmp_for"
    /\ UNCHANGED <<args, fs, open, todo, stack, data_dict, file_data, keys, result, disk>>

MainExtract ==
    /\ pc = "main"
    /\ ModeOf(args) = "extract"
    /\ frame' = Frame("extract_data", "__main__", args.file, args.extract, FALSE, <<>>)
    /\ log' = Append(log, Ev("call", <<>>, "extract_data"))
    /\ pc' = "ext_with"
    /\ UNCHANGED <<args, fs, open, todo, stack, data_dict, file_data, all_data, i, keys,
                   result, disk>>

MainExplore ==
    /\ pc = "main"
    /\ ModeOf(args) = "explore"
    /\ frame' = Frame("explore_hdf5", "__main__", args.file, None, args.verbose, <<>>)
    /\ log' = log \o <<Ev("call", <<>>, "explore_hdf5"), Ev("e_banner", args.file, <<>>)>>
    /\ pc' = "exp_with"
    /\ UNCHANGED <<args, fs, open, todo, stack, data_dict, file_data, all_data, i, keys,
                   result, disk>>

(***************************************************************************)
(* explore_hdf5                                                            *)
(***************************************************************************)
RECURSIVE Unwind(_)
\* analyze_group returns when its loop over group.keys() is exhausted
Unwind(st) ==
    IF st # <<>> /\ st[Len(st)].keys = <<>>
    THEN Unwind(SubSeq(st, 1, Len(st) - 1))
    ELSE st

\* the frame on top of the stack with its first key consumed
Advance(st) ==
    [st EXCEPT ![Len(st)] = [path |-> st[Len(st)].path, keys |-> Tail(st[Len(st)].keys)]]

\* with h5py.File(file_path, 'r') as f: a path that names no container raises
ExploreWith ==
    /\ pc = "exp_with"
    /\ IF frame.file_path \in DOMAIN fs
       THEN /\ open' = open \cup {frame.file_path}
            /\ log' = log \o <<Ev("open", frame.file_path, <<>>), Ev("e_structure", <<>>, <<>>)>>
            /\ todo' = VisitItems(fs[frame.file_path])
            /\ pc' = "exp_visit"
       ELSE /\ log' = Append(log, Ev("raise", frame.file_path, "open"))
            /\ pc' = "raised"
            /\ UNCHANGED <<open, todo>>
    /\ UNCHANGED <<args, fs, frame, stack, data_dict, file_data, all_data, i, keys,
                   result, disk>>

\* f.visititems(print_structure): one node
ExploreVisit ==
    /\ pc = "exp_visit"
    /\ todo # <<>>
    /\ log' = log \o print_structure(Head(todo), fs[frame.file_path][Head(todo)])
    /\ todo' = Tail(todo)
    /\ UNCHANGED <<args, fs, pc, frame, open, stack, data_dict, file_data, all_data, i,
                   keys, result, disk>>

\* the structure pass is over: analyze_group(f)
ExploreAnalysis ==
    /\ pc = "exp_visit"
    /\ todo = <<>>
    /\ log' = Append(log, Ev("e_analysis", <<>>, <<>>))
    /\ stack' = Unwind(<<[path |-> <<>>, keys |-> fs[frame.file_path][<<>>].keys]>>)
    /\ pc' = "exp_analyze"
    /\ UNCHANGED <<args, fs, frame, open, todo, data_dict, file_data, all_data, i, keys,
                   result, disk>>

\* one iteration of "for key in group.keys()" of the innermost analyze_group
ExploreAnalyze ==
    /\ pc = "exp_analyze"
    /\ stack # <<>>
    /\ LET top == stack[Len(stack)]
           current_path == JoinPath(top.path, Head(top.keys))
           item == fs[frame.file_path][current_path]
       IN IF IsGroup(item)
          THEN /\ log' = Append(log, Ev("a_group", current_path, <<>>))
               /\ stack' = Unwind(Append(Advance(stack),
                                         [path |-> current_path, keys |-> item.keys]))
               /\ UNCHANGED <<pc, open>>
          ELSE IF item.readable
          THEN /\ log' = log
                    \o <<Ev("a_dataset", current_path,
                            [shape |-> item.shape, dtype |-> item.dtype]),
                         Ev("read", current_path, frame.file_path)>>
                    \o AnalyzeData(current_path, ReadAll(item), frame.verbose)
                    \o (IF Len(item.attrs) > 0
                        THEN <<Ev("a_attrs", current_path, item.attrs)>> ELSE <<>>)
               /\ stack' = Unwind(Advance(stack))
               /\ UNCHANGED <<pc, open>>
          ELSE /\ log' = log
                    \o <<Ev("a_dataset", current_path,
                            [shape |-> item.shape, dtype |-> item.dtype]),
                         Ev("raise", current_path, "read"),
                         Ev("close", frame.file_path, <<>>)>>
               /\ open' = WithExit(open, frame.file_path, TRUE)
               /\ pc' = "raised"
               /\ UNCHANGED stack
    /\ UNCHANGED <<args, fs, frame, todo, data_dict, file_data, all_data, i, keys,
                   result, disk>>

\* analyze_group(f) has returned: the closing banner, and the with block ends
ExploreComplete ==
    /\ pc = "exp_analyze"
    /\ stack = <<>>
    /\ log' = log \o <<Ev("e_complete", <<>>, <<>>), Ev("close", frame.file_path, <<>>)>>
    /\ open' = WithExit(open, frame.file_path, FALSE)
    /\ pc' = "exp_ret"
    /\ UNCHANGED <<args, fs, frame, todo, stack, data_dict, file_data, all_data, i, keys,
                   result, disk>>

\* __main__ after explore_hdf5: the tip
MainTip ==
    /\ pc = "exp_ret"
    /\ frame.caller = "__main__"
    /\ log' = Append(log, Ev("m_tip", args.file, <<>>))
    /\ pc' = "done"
    /\ UNCHANGED <<args, fs, frame, open, todo, stack, data_dict, file_data, all_data, i,
                   keys, result, disk>>

(***************************************************************************)
(* extract_data                                                            *)
(***************************************************************************)
\* print_datasets without the isinstance test: every node is listed
print_datasetsAll(name, obj) == <<Ev("x_item", name, <<>>)>>

\* collect_data keyed by the last key of the name instead of the full name
collect_dataByKey(d, name, obj) ==
    IF IsDataset(obj) THEN DictSet(d, PathName(name), ReadAll(obj)) ELSE d

\* print_datasets(name, obj): the callback of the not-found listing
print_datasets(name, obj) ==
    IF IsDataset(obj) THEN <<Ev("x_item", name, <<>>)>> ELSE <<>>

\* collect_data(name, obj): the callback of extract-all, on a readable node
collect_data(d, name, obj) ==
    IF IsDataset(obj) THEN DictSet(d, name, ReadAll(obj)) ELSE d

\* a callback that reads obj[()] fails on a dataset that cannot be read
ReadFails(obj) == IsDataset(obj) /\ ~obj.readable

ExtractWith ==
    /\ pc = "ext_with"
    /\ IF frame.file_path \in DOMAIN fs
       THEN /\ open' = open \cup {frame.file_path}
            /\ log' = Append(log, Ev("open", frame.file_path, <<>>))
            /\ pc' = "ext_body"
       ELSE /\ log' = Append(log, Ev("raise", frame.file_path, "open"))
            /\ pc' = "raised"
            /\ UNCHANGED open
    /\ UNCHANGED <<args, fs, frame, todo, stack, data_dict, file_data, all_data, i, keys,
                   result, disk>>

\* if dataset_path: if dataset_path in f: data = f[dataset_path][()] ...
\* a Group takes no () index: f[dataset_path][()] raises TypeError
ExtractGet ==
    /\ pc = "ext_body"
    /\ Truthy(frame.dataset_path)
    /\ Contains(fs[frame.file_path], frame.dataset_path[1])
    /\ LET item == GetItem(fs[frame.file_path], frame.dataset_path[1])
       IN IF IsDataset(item) /\ item.readable
          THEN /\ log' = log
                    \o <<Ev("read", NodeName(frame.dataset_path[1]), frame.file_path),
                         Ev("x_extracted", frame.dataset_path[1], ReadAll(item).shape),
                         Ev("close", frame.file_path, <<>>)>>
               /\ result' = ReturnData(ReadAll(item))
               /\ open' = WithExit(open, frame.file_path, FALSE)
               /\ pc' = "ext_ret"
          ELSE /\ log' = log
                    \o <<Ev("raise", frame.dataset_path[1],
                            IF IsGroup(item) THEN "TypeError" ELSE "read"),
                         Ev("close", frame.file_path, <<>>)>>
               /\ open' = WithExit(open, frame.file_path, TRUE)
               /\ pc' = "raised"
               /\ UNCHANGED result
    /\ UNCHANGED <<args, fs, frame, todo, stack, data_dict, file_data, all_data, i, keys, disk>>

\* else: "not found", then f.visititems(print_datasets)
ExtractNotFound ==
    /\ pc = "ext_body"
    /\ Truthy(frame.dataset_path)
    /\ ~Contains(fs[frame.file_path], frame.dataset_path[1])
    /\ log' = log \o <<Ev("x_not_found", frame.dataset_path[1], <<>>),
                       Ev("x_available", <<>>, <<>>)>>
    /\ todo' = VisitItems(fs[frame.file_path])
    /\ pc' = "ext_list"
    /\ UNCHANGED <<args, fs, frame, open, stack, data_dict, file_data, all_data, i, keys,
                   result, disk>>

ExtractList ==
    /\ pc = "ext_list"
    /\ todo # <<>>
    /\ log' = log \o print_datasets(Head(todo), fs[frame.file_path][Head(todo)])
    /\ todo' = Tail(todo)
    /\ UNCHANGED <<args, fs, pc, frame, open, stack, data_dict, file_data, all_data, i,
                   keys, result, disk>>

\* return None
ExtractListReturn ==
    /\ pc = "ext_list"
    /\ todo = <<>>
    /\ log' = Append(log, Ev("close", frame.file_path, <<>>))
    /\ result' = ReturnNone
    /\ open' = WithExit(open, frame.file_path, FALSE)
    /\ pc' = "ext_ret"
    /\ UNCHANGED <<args, fs, frame, todo, stack, data_dict, file_data, all_data, i, keys, disk>>

\* else (no dataset_path): data_dict = {}; f.visititems(collect_data)
ExtractAll ==
    /\ pc = "ext_body"
    /\ ~Truthy(frame.dataset_path)
    /\ data_dict' = <<>>
    /\ todo' = VisitItems(fs[frame.file_path])
    /\ pc' = "ext_collect"
    /\ UNCHANGED <<args, fs, frame, open, log, stack, file_data, all_data, i, keys,
                   result, disk>>

ExtractCollect ==
    /\ pc = "ext_collect"
    /\ todo # <<>>
    /\ LET obj == fs[frame.file_path][Head(todo)]
       IN IF ReadFails(obj)
          THEN /\ log' = log \o <<Ev("raise", Head(todo), "read"),
                                  Ev("close", frame.file_path, <<>>)>>
               /\ open' = WithExit(open, frame.file_path, TRUE)
               /\ pc' = "raised"
               /\ UNCHANGED <<todo, data_dict>>
          ELSE /\ data_dict' = collect_data(data_dict, Head(todo), obj)
               /\ log' = IF IsDataset(obj)
                         THEN Append(log, Ev("read", Head(todo), frame.file_path))
                         ELSE log
               /\ todo' = Tail(todo)
               /\ UNCHANGED <<open, pc>>
    /\ UNCHANGED <<args, fs, frame, stack, file_data, all_data, i, keys, result, disk>>

\* print(f"Extracted {len(data_dict)} datasets"); return data_dict
ExtractAllReturn ==
    /\ pc = "ext_collect"
    /\ todo = <<>>
    /\ log' = log \o <<Ev("x_count", <<>>, Len(data_dict)),
                       Ev("close", frame.file_path, <<>>)>>
    /\ result' = ReturnDict(data_dict)
    /\ open' = WithExit(open, frame.file_path, FALSE)
    /\ pc' = "ext_ret"
    /\ UNCHANGED <<args, fs, frame, todo, stack, data_dict, file_data, all_data, i, keys, disk>>

\* SaveGuard without the test of the data
SaveGuardNoData(data, save) == Truthy(save)

\* if data is not None and args.save:
SaveGuard(data, save) == data.t # "None" /\ Truthy(save)

\* np.save(file, arr) appends ".npy" to a name that does not end with it
NpyName(file) ==
    LET ext == <<46, 110, 112, 121>>
    IN IF Len(file) >= 4 /\ SubSeq(file, Len(file) - 3, Len(file)) = ext
       THEN file ELSE file \o ext

\* __main__ after extract_data
MainSave ==
    /\ pc = "ext_ret"
    /\ frame.caller = "__main__"
    /\ IF SaveGuard(result, args.save)
       THEN /\ disk' = DictSet(disk, NpyName(args.save[1]), result.v)
            /\ log' = log \o <<Ev("call", <<>>, "np.save"), Ev("m_saved", args.save[1], <<>>)>>
       ELSE UNCHANGED <<disk, log>>
    /\ pc' = "done"
    /\ UNCHANGED <<args, fs, frame, open, todo, stack, data_dict, file_data, all_data, i,
                   keys, result>>

(***************************************************************************)
(* compare_episodes                                                        *)
(***************************************************************************)
\* collect(name, obj): the callback of the load, on a readable node
collect(d, name, obj) ==
    IF IsDataset(obj)
    THEN DictSet(d, name, [shape |-> obj.shape, dtype |-> obj.dtype, data |-> ReadAll(obj)])
    ELSE d

\* AllKeys without the union: the keys of the first file only
AllKeysFirstFile(ad) == IF ad = <<>> THEN {} ELSE DictKeySet(ad[1][2])

\* all_keys: the union of the keys of every file_data
AllKeys(ad) == UNION {DictKeySet(ad[n][2]) : n \in 1..Len(ad)}

\* the line of one file under one key
CompareLine(key, fp, data) ==
    IF DictHas(data, key)
    THEN Ev("c_line", key, [file |-> PathName(fp), present |-> TRUE,
                            shape |-> DictGet(data, key).shape,
                            dtype |-> DictGet(data, key).dtype])
    ELSE Ev("c_line", key, [file |-> PathName(fp), present |-> FALSE,
                            shape |-> <<>>, dtype |-> ""])

\* for fp, data in all_data.items(): one line each
CompareLines(key, ad) == [n \in 1..Len(ad) |-> CompareLine(key, ad[n][1], ad[n][2])]

\* for fp in file_paths: ... with h5py.File(fp, 'r') as f:
CompareFor ==
    /\ pc = "cmp_for"
    /\ i <= Len(frame.file_paths)
    /\ LET fp == frame.file_paths[i]
       IN IF fp \in DOMAIN fs
          THEN /\ open' = open \cup {fp}
               /\ log' = log \o <<Ev("c_loading", fp, <<>>), Ev("open", fp, <<>>)>>
               /\ file_data' = <<>>
               /\ todo' = VisitItems(fs[fp])
               /\ pc' = "cmp_visit"
          ELSE /\ log' = log \o <<Ev("c_loading", fp, <<>>), Ev("raise", fp, "open")>>
               /\ pc' = "raised"
               /\ UNCHANGED <<open, file_data, todo>>
    /\ UNCHANGED <<args, fs, frame, stack, data_dict, all_data, i, keys, result, disk>>

\* f.visititems(collect): one node
CompareCollect ==
    /\ pc = "cmp_visit"
    /\ todo # <<>>
    /\ LET fp == frame.file_paths[i]
           obj == fs[fp][Head(todo)]
       IN IF ReadFails(obj)
          THEN /\ log' = log \o <<Ev("raise", Head(todo), "read"), Ev("close", fp, <<>>)>>
               /\ open' = WithExit(open, fp, TRUE)
               /\ pc' = "raised"
               /\ UNCHANGED <<todo, file_data>>
          ELSE /\ file_data' = collect(file_data, Head(todo), obj)
               /\ log' = IF IsDataset(obj) THEN Append(log, Ev("read", Head(todo), fp))
                         ELSE log
               /\ todo' = Tail(todo)
               /\ UNCHANGED <<open, pc>>
    /\ UNCHANGED <<args, fs, frame, stack, data_dict, all_data, i, keys, result, disk>>

\* all_data[fp] = file_data, and the with block ends
CompareStore ==
    /\ pc = "cmp_visit"
    /\ todo = <<>>
    /\ all_data' = DictSet(all_data, frame.file_paths[i], file_data)
    /\ log' = Append(log, Ev("close", frame.file_paths[i], <<>>))
    /\ open' = WithExit(open, frame.file_paths[i], FALSE)
    /\ i' = i + 1
    /\ pc' = "cmp_for"
    /\ UNCHANGED <<args, fs, frame, todo, stack, data_dict, file_data, keys, result, disk>>

\* every file is loaded: all_keys, and sorted(all_keys)
CompareStructure ==
    /\ pc = "cmp_for"
    /\ i > Len(frame.file_paths)
    /\ log' = Append(log, Ev("c_structure", <<>>, <<>>))
    /\ keys' = sorted(AllKeys(all_data))
    /\ pc' = "cmp_rows"
    /\ UNCHANGED <<args, fs, frame, open, todo, stack, data_dict, file_data, all_data, i,
                   result, disk>>

\* for key in sorted(all_keys): the key, then one line per entry of all_data
CompareRow ==
    /\ pc = "cmp_rows"
    /\ keys # <<>>
    /\ log' = log \o <<Ev("c_key", Head(keys), <<>>)>> \o CompareLines(Head(keys), all_data)
    /\ keys' = Tail(keys)
    /\ UNCHANGED <<args, fs, pc, frame, open, todo, stack, data_dict, file_data, all_data,
                   i, result, disk>>

CompareReturn ==
    /\ pc = "cmp_rows"
    /\ keys = <<>>
    /\ pc' = "done"
    /\ UNCHANGED <<args, fs, frame, open, log, todo, stack, data_dict, file_data, all_data,
                   i, keys, result, disk>>

(***************************************************************************)
(* The program run from the command line.  extract_data is always given a  *)
(* non-empty dataset_path by __main__, so its extract-all branch is not    *)
(* part of this next-state relation.                                       *)
(***************************************************************************)
Next ==
    \/ MainCompare \/ MainExtract \/ MainExplore
    \/ ExploreWith \/ ExploreVisit \/ ExploreAnalysis \/ ExploreAnalyze
    \/ ExploreComplete \/ MainTip
    \/ ExtractWith \/ ExtractGet \/ ExtractNotFound \/ ExtractList \/ ExtractListReturn
    \/ MainSave
    \/ CompareFor \/ CompareCollect \/ CompareStore \/ CompareStructure
    \/ CompareRow \/ CompareReturn

Spec == Init /\ [][Next]_vars

(***************************************************************************)
(* A family of containers: the root holds any of the group "a" (holding    *)
(* any of the datasets "x", "y") and the datasets "a-", "z".               *)
(***************************************************************************)
FamilyContainer(hasA, inA, atRoot) ==
    LET names == {<<>>} \cup atRoot
                 \cup (IF hasA THEN {<<97>>} \cup {JoinPath(<<97>>, k) : k \in inA} ELSE {})
    IN [n \in names |->
           IF n = <<>> THEN Group(sorted(atRoot \cup (IF hasA THEN {<<97>>} ELSE {})))
           ELSE IF n = <<97>> THEN Group(sorted(inA))
           ELSE Dataset(<<Len(n), 2>>, "float64", <<>>, TRUE, Len(n))]

Family ==
    {FamilyContainer(hasA, inA, atRoot) :
        hasA \in BOOLEAN, inA \in SUBSET {<<120>>, <<121>>},
        atRoot \in SUBSET {<<97, 45>>, <<122>>}}

FileSystems == {FileSystem} \cup {(FileA :> c) : c \in Family}

NoArgs == [file |-> <<>>, verbose |-> FALSE, extract |-> None, compare |-> None,
           save |-> None]

(***************************************************************************)
(* extract_data(file_path, dataset_path=None) called on its own.           *)
(***************************************************************************)
InitExtract ==
    /\ fs \in FileSystems
    /\ args = NoArgs
    /\ \E fp \in DOMAIN fs \cup {FileM}, dp \in {None} \cup {Some(p) : p \in ExtractPaths} :
          frame = Frame("extract_data", "import", fp, dp, FALSE, <<>>)
    /\ pc = "ext_with"
    /\ Fresh

NextExtract ==
    \/ ExtractWith \/ ExtractGet \/ ExtractNotFound \/ ExtractList \/ ExtractListReturn
    \/ ExtractAll \/ ExtractCollect \/ ExtractAllReturn

SpecExtract == InitExtract /\ [][NextExtract]_vars

(***************************************************************************)
(* explore_hdf5(file_path, verbose) called on its own, also on a container *)
(* holding one dataset "x" of a drawn shape and element type.              *)
(***************************************************************************)
Dims == {0, 2, 3, 7, 10, 25}
Shapes == UNION {[1..n -> Dims] : n \in 0..MaxRank}

ShapeContainer(shape, dtype) ==
    (<<>> :> Group(<<<<120>>>>)) @@ (<<120>> :> Dataset(shape, dtype, <<>>, TRUE, 1))

InitExplore ==
    /\ fs \in FileSystems
              \cup {(FileA :> ShapeContainer(s, t)) : s \in Shapes, t \in {"float64", "S"}}
    /\ args = NoArgs
    /\ \E fp \in DOMAIN fs \cup {FileM}, v \in BOOLEAN :
          frame = Frame("explore_hdf5", "import", fp, None, v, <<>>)
    /\ pc = "exp_with"
    /\ Fresh

NextExplore ==
    \/ ExploreWith \/ ExploreVisit \/ ExploreAnalysis \/ ExploreAnalyze \/ ExploreComplete

SpecExplore == InitExplore /\ [][NextExplore]_vars

(***************************************************************************)
(* Every way the three operations are entered: from the command line, and  *)
(* extract_data and explore_hdf5 called on their own.                      *)
(***************************************************************************)
InitAll == Init \/ InitExtract \/ InitExplore

NextAll ==
    \/ MainCompare \/ MainExtract \/ MainExplore
    \/ ExploreWith \/ ExploreVisit \/ ExploreAnalysis \/ ExploreAnalyze
    \/ ExploreComplete \/ MainTip
    \/ ExtractWith \/ ExtractGet \/ ExtractNotFound \/ ExtractList \/ ExtractListReturn
    \/ ExtractAll \/ ExtractCollect \/ ExtractAllReturn
    \/ MainSave
    \/ CompareFor \/ CompareCollect \/ CompareStore \/ CompareStructure
    \/ CompareRow \/ CompareReturn

SpecAll == InitAll /\ [][NextAll]_vars

(***************************************************************************)
(* Reading the log.                                                        *)
(***************************************************************************)
Called(fn) == \E n \in 1..Len(log) : log[n].ev = "call" /\ log[n].info = fn
Positions(evs) == {n \in 1..Len(log) : log[n].ev \in evs}
Emitted(evs) == SelectSeq(log, LAMBDA e : e.ev \in evs)
EmittedFor(evs, name) == SelectSeq(log, LAMBDA e : e.ev \in evs /\ e.name = name)
Ended == pc \in {"done", "raised", "ext_ret", "exp_ret"}
FromCommandLine == args \in ArgSpace

(***************************************************************************)
(* C1.  One invocation runs exactly one of the three modes, by precedence: *)
(* --compare given: Compare, and neither ExtractDataset, SaveExtracted nor *)
(* Explore; else --extract given: ExtractDataset and not Explore; else     *)
(* Explore with the --verbose flag.                                        *)
(***************************************************************************)
ModesRun == {fn \in {"compare_episodes", "extract_data", "explore_hdf5"} : Called(fn)}

\* the claim as stated: "given" is "present on the command line"
C1_AsStated ==
    (FromCommandLine /\ pc # "main") =>
        /\ Cardinality(ModesRun) = 1
        /\ args.compare # None =>
              /\ Called("compare_episodes")
              /\ ~Called("extract_data") /\ ~Called("np.save") /\ ~Called("explore_hdf5")
        /\ (args.compare = None /\ args.extract # None) =>
              Called("extract_data") /\ ~Called("explore_hdf5")
        /\ (args.compare = None /\ args.extract = None) =>
              Called("explore_hdf5") /\ frame.verbose = args.verbose

\* C1 amended: --extract selects ExtractDataset when its value is not empty;
\* with --extract "" (and no --compare) Explore runs with the --verbose flag
C1_ModePrecedence ==
    (FromCommandLine /\ pc # "main") =>
        /\ Cardinality(ModesRun) = 1
        /\ args.compare # None =>
              /\ Called("compare_episodes")
              /\ ~Called("extract_data") /\ ~Called("np.save") /\ ~Called("explore_hdf5")
        /\ (args.compare = None /\ args.extract # None /\ args.extract # Some(<<>>)) =>
              Called("extract_data") /\ ~Called("explore_hdf5")
        /\ (args.compare = None /\ (args.extract = None \/ args.extract = Some(<<>>))) =>
              Called("explore_hdf5") /\ frame.verbose = args.verbose

\* a finished run given --compare, --extract and --save at once
C1_Witness ==
    /\ pc = "done"
    /\ args.compare # None /\ Truthy(args.extract) /\ Truthy(args.save)
    /\ Called("compare_episodes")

(***************************************************************************)
(* C2.  In Explore, ExtractDataset and Compare every container that is     *)
(* opened is closed on every exit path (normal return, not-found return, a *)
(* failure while reading, also on the k-th file of Compare): when the      *)
(* operation has ended no handle is open.                                  *)
(***************************************************************************)
C2_HandlesClosed ==
    /\ Ended => open = {}
    /\ Ended => Cardinality(Positions({"open"})) = Cardinality(Positions({"close"}))
    /\ Cardinality(open) <= 1

\* Compare has failed reading a dataset of its second file
C2_Witness ==
    /\ pc = "raised"
    /\ frame.fn = "compare_episodes"
    /\ i = 2
    /\ \E n \in 1..Len(log) : log[n].ev = "raise" /\ log[n].info = "read"
    /\ Cardinality(Positions({"open"})) = 2

(***************************************************************************)
(* C7.  SaveExtracted happens only after an ExtractDataset of the same     *)
(* invocation has returned data that is not absent, and only when --save   *)
(* was given; when extraction returned the absence signal, when --save was *)
(* not given, or when Compare or Explore was the mode, no output file is   *)
(* created.                                                                *)
(***************************************************************************)
C7_SaveOnlyAfterExtract ==
    FromCommandLine =>
        /\ (disk # <<>> \/ Called("np.save")) =>
              /\ result.t = "data"
              /\ args.save # None
              /\ \E m \in 1..Len(log), n \in 1..Len(log) :
                    /\ m < n
                    /\ log[m].ev = "read"
                    /\ log[n].ev = "call" /\ log[n].info = "np.save"
              /\ Called("extract_data")
              /\ Len(disk) = 1 /\ disk[1][2] = result.v
        /\ (\/ result.t = "None"
            \/ args.save = None
            \/ Called("compare_episodes")
            \/ Called("explore_hdf5")) => disk = <<>>

\* an output file has been written
C7_Witness == pc = "done" /\ disk # <<>> /\ Called("np.save")

(***************************************************************************)
(* ExtractDataset: the container it is run on, and the path it is given.   *)
(***************************************************************************)
ExtractRuns == frame.fn = "extract_data" /\ frame.file_path \in DOMAIN fs
Container == fs[frame.file_path]
AllReadable(c) == \A n \in DatasetNames(c) : c[n].readable
PathGiven == frame.dataset_path # None
\* the given path names a node of the container (no node has the empty name)
PathExists ==
    /\ PathGiven
    /\ frame.dataset_path[1] # <<>>
    /\ NodeName(frame.dataset_path[1]) \in DOMAIN Container

(***************************************************************************)
(* C3.  For every datasetPath that is given and exists in the container,   *)
(* ExtractDataset reads and returns that node's full content (it neither   *)
(* returns the absence signal nor fails), and the shape of what it returns *)
(* is the shape the container declares for the node.  Stated here for      *)
(* containers whose datasets can all be read.                              *)
(***************************************************************************)
C3_ExistingPathReturned ==
    (ExtractRuns /\ PathExists /\ AllReadable(Container) /\ Ended) =>
        /\ pc # "raised"
        /\ result.t = "data"
        /\ result.v.shape = Container[NodeName(frame.dataset_path[1])].shape
        /\ result.v.val = Container[NodeName(frame.dataset_path[1])].val

(***************************************************************************)
(* C4.  For every datasetPath that is given but absent from the container, *)
(* ExtractDataset does not raise: it returns the absence signal, and the   *)
(* paths it prints as available are exactly the Dataset paths of the       *)
(* container (every dataset, no group).                                    *)
(***************************************************************************)
AvailableListed == Emitted({"x_item"})
AbsenceReported ==
    /\ pc # "raised"
    /\ pc = "ext_ret" =>
          /\ result = ReturnNone
          /\ {AvailableListed[n].name : n \in 1..Len(AvailableListed)}
                = DatasetNames(Container)
          /\ Len(AvailableListed) = Cardinality(DatasetNames(Container))

\* the claim as stated: every given path, the empty string included
C4_AsStated == (ExtractRuns /\ PathGiven /\ ~PathExists) => AbsenceReported

\* C4 amended: for every non-empty datasetPath that is given but absent
C4_AbsentPathListed ==
    (ExtractRuns /\ PathGiven /\ frame.dataset_path[1] # <<>> /\ ~PathExists)
        => AbsenceReported

\* the absence signal has been returned for a container with groups and datasets
C4_Witness ==
    /\ ExtractRuns /\ PathGiven /\ ~PathExists
    /\ pc = "ext_ret" /\ result = ReturnNone
    /\ Cardinality(DatasetNames(Container)) >= 2
    /\ \E n \in DOMAIN Container : n # <<>> /\ IsGroup(Container[n])

(***************************************************************************)
(* C5.  For every container with N Dataset leaves, ExtractDataset called   *)
(* with no datasetPath returns a mapping with exactly N entries, one keyed *)
(* by each dataset's path and none by a group path, and the count it       *)
(* reports is N.  It fails to return only when a dataset cannot be read.   *)
(***************************************************************************)
C5_ExtractAllComplete ==
    (ExtractRuns /\ ~PathGiven) =>
        /\ pc = "ext_ret" =>
              /\ result.t = "dict"
              /\ Len(result.v) = Cardinality(DatasetNames(Container))
              /\ DictKeySet(result.v) = DatasetNames(Container)
              /\ \A n \in 1..Len(result.v) :
                    result.v[n][2].val = Container[result.v[n][1]].val
              /\ Len(Emitted({"x_count"})) = 1
              /\ Emitted({"x_count"})[1].info = Cardinality(DatasetNames(Container))
        /\ pc = "raised" => ~AllReadable(Container)

\* a mapping of three or more datasets, some inside a group, has been returned
C5_Witness ==
    /\ ExtractRuns /\ ~PathGiven /\ pc = "ext_ret"
    /\ Len(result.v) >= 3
    /\ \E n \in DOMAIN Container : n # <<>> /\ IsGroup(Container[n])

(***************************************************************************)
(* Compare: the files it is given, and what it has emitted.                *)
(***************************************************************************)
CompareRuns == frame.fn = "compare_episodes"
RowKeys == Emitted({"c_key"})
UnionOfDatasetPaths ==
    UNION {DatasetNames(fs[frame.file_paths[n]]) : n \in 1..Len(frame.file_paths)}

RECURSIVE FirstOccurrences(_)
\* the distinct entries of a list, each at the place of its first occurrence
FirstOccurrences(l) ==
    IF l = <<>> THEN <<>>
    ELSE LET front == FirstOccurrences(SubSeq(l, 1, Len(l) - 1))
         IN IF \E n \in 1..Len(front) : front[n] = l[Len(l)]
            THEN front ELSE Append(front, l[Len(l)])

\* the line of file fp under key: shape and dtype if fp holds key, else missing
LineShows(line, key, fp) ==
    IF key \in DatasetNames(fs[fp])
    THEN /\ line.info.present
         /\ line.info.shape = fs[fp][key].shape
         /\ line.info.dtype = fs[fp][key].dtype
    ELSE ~line.info.present

\* rows come after every load, keys are the sorted union, one line per file
RowsReport(files) ==
    CompareRuns =>
        /\ \A p \in Positions({"c_key", "c_line"}),
              q \in Positions({"c_loading", "open", "read", "close"}) : q < p
        /\ Positions({"c_key", "c_line"}) # {} => i > Len(frame.file_paths)
        /\ pc = "raised" => Positions({"c_key", "c_line"}) = {}
        /\ pc = "done" =>
              /\ {RowKeys[n].name : n \in 1..Len(RowKeys)} = UnionOfDatasetPaths
              /\ \A n \in 1..(Len(RowKeys) - 1) : StrLess(RowKeys[n].name, RowKeys[n + 1].name)
              /\ \A p \in Positions({"c_line"}) :
                    LET k == CHOOSE q \in Positions({"c_key"}) :
                                /\ q < p
                                /\ \A r \in Positions({"c_key"}) : r < p => r <= q
                    IN log[k].name = log[p].name
              /\ \A key \in UnionOfDatasetPaths :
                    LET lines == EmittedFor({"c_line"}, key)
                    IN /\ Len(lines) = Len(files)
                       /\ \A n \in 1..Len(lines) : LineShows(lines[n], key, files[n])

(***************************************************************************)
(* C6.  Compare emits its rows only after all files have been loaded, over *)
(* exactly the union of the dataset paths of all files in lexicographic    *)
(* order, and for each such path one line for each file of the input       *)
(* sequence: shape and dtype if the file holds the path, the missing       *)
(* marker if not.                                                          *)
(***************************************************************************)
\* the claim as stated: one line for each entry of the input sequence
C6_AsStated == RowsReport(frame.file_paths)

\* C6 amended: one line for each distinct path of the input sequence, in the
\* order of first occurrence (a path given twice is loaded twice, shown once)
C6_RowsPerDistinctFile == RowsReport(FirstOccurrences(frame.file_paths))

\* two different files compared: a path of one is missing from the other
C6_Witness ==
    /\ CompareRuns /\ pc = "done"
    /\ Len(frame.file_paths) = 2
    /\ \E p \in Positions({"c_line"}), q \in Positions({"c_line"}) :
          /\ log[p].name = log[q].name
          /\ log[p].info.present /\ ~log[q].info.present
    /\ Len(RowKeys) >= 3

(***************************************************************************)
(* Explore: the container it is run on, and the previews it has emitted.   *)
(***************************************************************************)
ExploreRuns == frame.fn = "explore_hdf5" /\ frame.file_path \in DOMAIN fs
ArrayNames == {n \in DatasetNames(Container) : Container[n].shape # <<>>}
PreviewsOf(name) == EmittedFor({"p_data", "p_first", "p_shape"}, name)

\* the truncated preview of an array of more than 20 elements, by dimensionality
TruncatedPreview(name, shape) ==
    IF Len(shape) = 1 THEN <<Ev("p_first", name, <<10>>)>>
    ELSE IF Len(shape) = 2 THEN <<Ev("p_first", name, <<Min(3, shape[1]), shape[2]>>)>>
    ELSE IF Len(shape) = 3
    THEN <<Ev("p_first", name, <<Min(2, shape[1]), Min(2, shape[2]), shape[3]>>)>>
    ELSE <<Ev("p_shape", name, shape)>>

(***************************************************************************)
(* C8.  In verbose Explore the preview of every array dataset is chosen by *)
(* element count, then dimensionality: at most 20 elements, the full       *)
(* array; otherwise 1-D the first 10 elements, 2-D the first 3 rows, 3-D   *)
(* the first 2x2 block of the first two axes, 4-D and more the shape only. *)
(* With verbose unset no preview is emitted.                               *)
(***************************************************************************)
\* the claim as stated: every array of at most 20 elements is emitted in full
C8_AsStated ==
    (ExploreRuns /\ pc = "exp_ret") =>
        \A d \in ArrayNames :
            LET shape == Container[d].shape
            IN PreviewsOf(d) =
                  IF ~frame.verbose THEN <<>>
                  ELSE IF Product(shape) <= 20 THEN <<Ev("p_data", d, shape)>>
                  ELSE TruncatedPreview(d, shape)

\* C8 amended: the full array is emitted when the element count is between 1
\* and 20; an array of 0 elements gets no preview
C8_PreviewByCountThenRank ==
    (ExploreRuns /\ pc = "exp_ret") =>
        \A d \in ArrayNames :
            LET shape == Container[d].shape
            IN PreviewsOf(d) =
                  IF ~frame.verbose \/ Product(shape) = 0 THEN <<>>
                  ELSE IF Product(shape) <= 20 THEN <<Ev("p_data", d, shape)>>
                  ELSE TruncatedPreview(d, shape)

\* verbose Explore has shown the 2x2 block of a 3-D array
C8_Witness ==
    /\ ExploreRuns /\ pc = "exp_ret" /\ frame.verbose
    /\ \E n \in 1..Len(log) : log[n].ev = "p_first" /\ Len(log[n].info) = 3

(***************************************************************************)
(* C9.  In verbose Explore a 1-D array of 25 elements shows exactly its    *)
(* first 10 elements, and a 4-D array of any size (20 elements or fewer    *)
(* included) shows only its shape and never raw values.                    *)
(***************************************************************************)
\* the claim as stated: no 4-D array has any of its values emitted
C9_AsStated ==
    (ExploreRuns /\ pc = "exp_ret" /\ frame.verbose) =>
        \A d \in ArrayNames :
            /\ Container[d].shape = <<25>> => PreviewsOf(d) = <<Ev("p_first", d, <<10>>)>>
            /\ Len(Container[d].shape) = 4
                  => \A n \in 1..Len(PreviewsOf(d)) : PreviewsOf(d)[n].ev = "p_shape"

\* C9 amended: a 4-D array of more than 20 elements shows only its shape; a
\* 4-D array of 1 to 20 elements is emitted in full
C9_TruncationExamples ==
    (ExploreRuns /\ pc = "exp_ret" /\ frame.verbose) =>
        \A d \in ArrayNames :
            /\ Container[d].shape = <<25>> => PreviewsOf(d) = <<Ev("p_first", d, <<10>>)>>
            /\ (Len(Container[d].shape) = 4 /\ Product(Container[d].shape) > 20)
                  => PreviewsOf(d) = <<Ev("p_shape", d, Container[d].shape)>>
            /\ (Len(Container[d].shape) = 4 /\ Product(Container[d].shape) \in 1..20)
                  => PreviewsOf(d) = <<Ev("p_data", d, Container[d].shape)>>

\* verbose Explore has shown only the shape of a 4-D array
C9_Witness ==
    /\ ExploreRuns /\ pc = "exp_ret" /\ frame.verbose
    /\ \E n \in 1..Len(log) : log[n].ev = "p_shape" /\ Len(log[n].info) = 4

(***************************************************************************)
(* Explore: its two passes.                                                *)
(***************************************************************************)
StructurePass == Emitted({"s_group", "s_dataset"})
AnalysisEvents ==
    {"a_group", "a_dataset", "read", "a_array", "a_value", "a_stats", "a_attrs",
     "p_data", "p_first", "p_shape"}
NoDuplicates(sq) == \A m \in 1..Len(sq), n \in 1..Len(sq) : sq[m].name = sq[n].name => m = n
NamesOf(sq) == {sq[n].name : n \in 1..Len(sq)}
\* the group holding the node of this name
ParentName(name) == SubSeq(name, 1, LastSlash(name) - 1)

\* the structure pass is over before the analysis pass starts
PassesInOrder ==
    /\ \A p \in Positions({"s_group", "s_dataset", "s_attrs"}), q \in Positions({"e_analysis"}) :
          p < q
    /\ \A r \in Positions(AnalysisEvents) : \E q \in Positions({"e_analysis"}) : q < r
    /\ \A r \in Positions(AnalysisEvents \cup {"e_analysis"}), q \in Positions({"e_complete"}) :
          r < q

\* the structure pass has emitted exactly these nodes, each once, depth first
StructurePassEmits(nodes) ==
    Positions({"e_analysis"}) # {} =>
        /\ NoDuplicates(StructurePass)
        /\ NamesOf(StructurePass) = nodes
        /\ \A n \in 1..Len(StructurePass) :
              LET e == StructurePass[n]
                  obj == Container[e.name]
              IN /\ IF e.ev = "s_group"
                    THEN IsGroup(obj) /\ e.info = obj.keys
                    ELSE /\ IsDataset(obj)
                         /\ e.info.shape = obj.shape
                         /\ e.info.dtype = obj.dtype
                         /\ e.info.size = Product(obj.shape)
                 /\ ParentName(e.name) # <<>> =>
                       \E m \in 1..(n - 1) : StructurePass[m].name = ParentName(e.name)

\* the analysis pass has emitted every dataset once, its content read first
AnalysisPassEmits ==
    Positions({"e_complete"}) # {} =>
        /\ NoDuplicates(Emitted({"a_dataset"}))
        /\ NamesOf(Emitted({"a_dataset"})) = DatasetNames(Container)
        /\ NoDuplicates(Emitted({"read"}))
        /\ NamesOf(Emitted({"read"})) = DatasetNames(Container)
        /\ NoDuplicates(Emitted({"a_array", "a_value"}))
        /\ NamesOf(Emitted({"a_array", "a_value"})) = DatasetNames(Container)
        /\ \A p \in Positions({"a_array", "a_value", "a_stats", "p_data", "p_first", "p_shape"}) :
              \E q \in Positions({"read"}) : q < p /\ log[q].name = log[p].name
        /\ NoDuplicates(Emitted({"a_group"}))
        /\ NamesOf(Emitted({"a_group"}))
              = {n \in DOMAIN Container : n # <<>> /\ IsGroup(Container[n])}

\* no completion message after a failed read
NoCompletionAfterFailure ==
    /\ Positions({"e_complete"}) # {} => (Positions({"raise"}) = {} /\ AllReadable(Container))
    /\ pc = "raised" => Positions({"e_complete"}) = {}
    /\ pc = "exp_ret" => Positions({"e_complete"}) # {}

(***************************************************************************)
(* C10.  Explore makes two complete depth-first traversals in order, the   *)
(* structure pass finishing before the analysis pass starts: the first     *)
(* emits every node of the container (each Group with its child keys, each *)
(* Dataset with shape, type and element count) exactly once, the second    *)
(* emits every Dataset exactly once after reading its content; the         *)
(* completion message comes only after both passes have visited every      *)
(* node, and never when a dataset read fails.                              *)
(***************************************************************************)
\* the claim as stated: every node, the root group included
C10_AsStated ==
    ExploreRuns =>
        /\ PassesInOrder
        /\ StructurePassEmits(DOMAIN Container)
        /\ AnalysisPassEmits
        /\ NoCompletionAfterFailure

\* C10 amended: the first pass emits every node other than the root group
C10_TwoPasses ==
    ExploreRuns =>
        /\ PassesInOrder
        /\ StructurePassEmits(DOMAIN Container \ {<<>>})
        /\ AnalysisPassEmits
        /\ NoCompletionAfterFailure

\* Explore has completed on a container of a group holding datasets
C10_Witness ==
    /\ ExploreRuns /\ pc = "exp_ret"
    /\ Positions({"e_complete"}) # {}
    /\ Cardinality(DatasetNames(Container)) >= 3
    /\ \E n \in DOMAIN Container : n # <<>> /\ IsGroup(Container[n]) /\ Container[n].keys # <<>>

====
